---- MODULE Spec2Model ----
(***************************************************************************)
(* The two record-ingest Lambda handlers of otel-demo-nodejs-cdk           *)
(* (lib/lambdas/otel/otelHandler.ts and lib/lambdas/adot/adotHandler.ts)   *)
(* running concurrently against the one DynamoDB table of the stack.       *)
(*                                                                         *)
(* A handler is an async function: it runs synchronously from one await    *)
(* to the next, so every action below is "the awaited promise settles and  *)
(* the handler runs up to its next await (or its return / its throw)".     *)
(***************************************************************************)
EXTENDS Integers, Sequences, FiniteSets

\* ------------------------------------------------------------------ bounds

\* Number of invocations (independent Lambda executions) in one behaviour.
MaxInvocations == 2

\* Longest JSON object (members, as written) and longest JSON array of a
\* fetched body in SpecPayloads.
MaxFields == 2

Invocations == 1..MaxInvocations

\* --------------------------------------------------------------- JSON data
\* JSON values are tagged pairs <<tag, payload>>.  An object's payload is the
\* sequence of its <<key, value>> properties in property order, an array's
\* the sequence of its elements.

Num(n) == <<"num", n>>
Str(s) == <<"str", s>>
JNull == <<"null", <<>> >>
JObject(props) == <<"object", props>>
JArray(elems) == <<"array", elems>>
Undefined == <<"undefined", <<>> >>

IsObject(v) == v[1] = "object"
IsArray(v) == v[1] = "array"

Keys(props) == {props[n][1] : n \in 1..Len(props)}

\* Value of property k (the key is present in props).
Get(props, k) == props[CHOOSE n \in 1..Len(props) : props[n][1] = k][2]

\* obj[k] = v on an ordinary object: an existing property keeps its place and
\* takes the new value, a new property goes last.
SetProperty(props, k, v) ==
  IF k \in Keys(props)
    THEN [n \in 1..Len(props) |-> IF props[n][1] = k THEN <<k, v>> ELSE props[n]]
    ELSE Append(props, <<k, v>>)

\* An HTTP body is text: the JSON text of a value (for an object: its members
\* as written, where a key may be written twice), or text that is no JSON.
JsonText(v) == <<"json", v>>
NotJson == <<"html", <<>> >>
NoBody == <<"none", <<>> >>

\* An HTTP response as fetch() resolves it: its status and its body.
Response(status, body) == [status |-> status, body |-> body]
NoResponse == Response(0, NoBody)

\* What GET /users/{userId} answers in Spec: a user with an `id`, a user
\* without one, 404 with the empty object (unknown user), 500 with an HTML page.
UserResponses ==
  { Response(200, JsonText(JObject(<<<<"id", Num(7)>>, <<"name", Str("Leanne")>>>>))),
    Response(200, JsonText(JObject(<<<<"name", Str("Leanne")>>>>))),
    Response(404, JsonText(JObject(<<>>))),
    Response(500, NotJson) }

\* What GET /users/{userId} answers in SpecPayloads: any JSON object text of at
\* most MaxFields members over these keys and values, any array of at most
\* MaxFields of the values, null or a number, under either status; or no JSON.
PayloadKeys == {"id", "name"}
PayloadValues == {Num(7), Str("Leanne")}
SeqsUpTo(S, n) == UNION {[1..m -> S] : m \in 0..n}
PayloadTexts ==
  {JObject(ms) : ms \in SeqsUpTo(PayloadKeys \X PayloadValues, MaxFields)}
    \cup {JArray(es) : es \in SeqsUpTo(PayloadValues, MaxFields)}
    \cup {JNull, Num(7)}
AllUserResponses ==
  {Response(st, JsonText(v)) : st \in {200, 404}, v \in PayloadTexts}
    \cup {Response(500, NotJson)}

\* The two comment lists the auxiliary resource may answer with, or no JSON.
CommentValues == {JArray(<<Str("comment-a")>>), JArray(<<Str("comment-b")>>)}
CommentResponses ==
  {Response(200, JsonText(c)) : c \in CommentValues} \cup {Response(500, NotJson)}

\* JSON.parse of an object's members, left to right: a key written again
\* keeps its first place and takes the later value.
RECURSIVE FromMembers(_, _)
FromMembers(members, props) ==
  IF members = <<>>
    THEN props
    ELSE FromMembers(Tail(members),
                     SetProperty(props, Head(members)[1], Head(members)[2]))

\* Response.json(): the decoded body.  It rejects on a body that is no JSON.
Decodable(body) == body[1] = "json"
json(resp) ==
  IF ~Decodable(resp.body) THEN Undefined
  ELSE IF IsObject(resp.body[2]) THEN JObject(FromMembers(resp.body[2][2], <<>>))
  ELSE resp.body[2]

\* The own enumerable properties `...v` copies, in property order: the
\* properties of an object, the indexed elements of an array, none otherwise.
IndexKey(n) == <<"0", "1", "2", "3">>[n]
OwnProperties(v) ==
  IF IsObject(v) THEN v[2]
  ELSE IF IsArray(v) THEN [n \in 1..Len(v[2]) |-> <<IndexKey(n), v[2][n]>>]
  ELSE <<>>

\* Faulty variant: the literal written { id: itemId, ...userData }, the spread last.
ItemIdFirst(userData, itemId) ==
  JObject(FromMembers(OwnProperties(userData), <<<<"id", itemId>>>>))

\* Faulty variant: the literal written { id: itemId }, the spread forgotten.
ItemWithoutSpread(userData, itemId) == JObject(<<<<"id", itemId>>>>)

\* The object literal { ...userData, id: itemId }.
Item(userData, itemId) == JObject(SetProperty(OwnProperties(userData), "id", itemId))

\* JSON.stringify of the item: its properties in property order, as text.
stringify(v) == JsonText(v)

\* DynamoDBDocument marshalling: the item as an attribute map, name -> value.
Marshall(item) == [k \in Keys(item[2]) |-> Get(item[2], k)]

\* The table's partition key.
partitionKey == "id"

\* PutItem: unconditional upsert by partition key.
PutItem(tbl, attrs) ==
  {r \in tbl : r[partitionKey] # attrs[partitionKey]} \cup {attrs}

\* The UUID strings of the model, as many as there are invocations.
UUID(n) == <<"uuid", n>>
UUIDs == {UUID(n) : n \in Invocations}

\* Faulty variant: an identifier generator that may repeat itself.
randomUUIDRepeats(earlier) == UUIDs

\* randomUUID(): a version-4 UUID no earlier call has returned.  The handlers
\* only copy the identifier, so the fresh value is named by its order of issue:
\* which invocation gets which UUID depends on the order of the calls.
randomUUID(earlier) == {UUID(Cardinality(earlier) + 1)}

\* ------------------------------------------------------------------- state

Handlers == {"otel", "adot"}

VARIABLES
  pc,         \* per invocation: the await it is suspended at, or how it ended
  handlerOf,  \* per invocation: which handler it runs
  inflight,   \* per invocation: the outbound operations issued and not yet settled
  user,       \* per invocation: `user`, the primary Response
  user2,      \* per invocation: `user2`, the auxiliary Response (adot)
  userData2,  \* per invocation: `userData2` (adot)
  userData,   \* per invocation: `userData`
  itemId,     \* per invocation: `itemId`
  params,     \* per invocation: `params.Item`
  result,     \* per invocation: the value the handler returned
  steps,      \* per invocation: the steps it has run so far, in order
  thrownAt,   \* per invocation: the await whose rejection ended it
  table,      \* the DynamoDB table: a set of items
  issued      \* the UUIDs randomUUID() has returned so far

vars ==
  <<pc, handlerOf, inflight, user, user2, userData2, userData, itemId, params,
    result, steps, thrownAt, table, issued>>

NoResult == [statusCode |-> 0, body |-> NoBody]

\* The outbound operations a handler awaits.  The user id in the URL of the
\* primary fetch, randomInt(0, 10), decides nothing in the handler: whatever
\* it is, the answer is one of UserResponses.
GetUser == "GET /users/{userId}"
GetComments == "GET /comments"
ReadBody(which) == IF which = "user" THEN "user.json()" ELSE "user2.json()"
PutCall == "documentClient.put"

Init ==
  /\ pc = [i \in Invocations |-> "idle"]
  /\ handlerOf = [i \in Invocations |-> "none"]
  /\ inflight = [i \in Invocations |-> {}]
  /\ user = [i \in Invocations |-> NoResponse]
  /\ user2 = [i \in Invocations |-> NoResponse]
  /\ userData2 = [i \in Invocations |-> Undefined]
  /\ userData = [i \in Invocations |-> Undefined]
  /\ itemId = [i \in Invocations |-> Undefined]
  /\ params = [i \in Invocations |-> Undefined]
  /\ result = [i \in Invocations |-> NoResult]
  /\ steps = [i \in Invocations |-> <<>>]
  /\ thrownAt = [i \in Invocations |-> "none"]
  /\ table = {}
  /\ issued = {}

\* Faulty variant: adot without its auxiliary fetch.
NextAwaitSkipsAux(h, at) ==
  CASE at = "fetchUser" -> "json"
    [] at = "fetchUser2" -> "json2"
    [] at = "json2" -> "json"
    [] at = "json" -> "put"
    [] at = "put" -> "return"

\* The await that follows await `at` in handler h ("return" after the last one).
NextAwait(h, at) ==
  IF h = "adot"
    THEN CASE at = "fetchUser" -> "fetchUser2"
           [] at = "fetchUser2" -> "json2"
           [] at = "json2" -> "json"
           [] at = "json" -> "put"
           [] at = "put" -> "return"
    ELSE CASE at = "fetchUser" -> "json"
           [] at = "json" -> "put"
           [] at = "put" -> "return"

\* ----------------------------------------------------------------- actions

\* The handler is invoked: fetch(.../users/${userId}) is awaited.
Invoke(i, h) ==
  /\ pc[i] = "idle"
  /\ inflight' = [inflight EXCEPT ![i] = {GetUser}]
  /\ handlerOf' = [handlerOf EXCEPT ![i] = h]
  /\ pc' = [pc EXCEPT ![i] = "fetchUser"]
  /\ steps' = [steps EXCEPT ![i] = <<"fetchPrimary">>]
  /\ UNCHANGED <<user, user2, userData2, userData, itemId, params, result, thrownAt, table, issued>>

\* An awaited promise rejects: the handler has no try/catch, so the rejection
\* leaves the handler (its frame and locals are gone) and the invocation fails.
Reject(i, at) ==
  /\ pc[i] = at
  /\ pc' = [pc EXCEPT ![i] = "failed"]
  /\ thrownAt' = [thrownAt EXCEPT ![i] = at]
  /\ inflight' = [inflight EXCEPT ![i] = {}]
  /\ user' = [user EXCEPT ![i] = NoResponse]
  /\ user2' = [user2 EXCEPT ![i] = NoResponse]
  /\ userData2' = [userData2 EXCEPT ![i] = Undefined]
  /\ userData' = [userData EXCEPT ![i] = Undefined]
  /\ itemId' = [itemId EXCEPT ![i] = Undefined]
  /\ params' = [params EXCEPT ![i] = Undefined]
  /\ steps' = [steps EXCEPT ![i] = Append(@, "throw")]
  /\ UNCHANGED <<handlerOf, result, table, issued>>

\* fetch(users) resolves with a Response, whatever its status.
\* otel goes on to user.json(); adot issues nodeFetch(comments).
FetchUserResolve(i, r) ==
  /\ pc[i] = "fetchUser"
  /\ user' = [user EXCEPT ![i] = r]
  /\ LET next == NextAwait(handlerOf[i], "fetchUser") IN
       /\ pc' = [pc EXCEPT ![i] = next]
       /\ IF next = "fetchUser2"
            THEN /\ inflight' = [inflight EXCEPT ![i] = {GetComments}]
                 /\ steps' = [steps EXCEPT ![i] = Append(@, "fetchAuxiliary")]
            ELSE /\ inflight' = [inflight EXCEPT ![i] = {ReadBody("user")}]
                 /\ steps' = steps
  /\ UNCHANGED <<handlerOf, user2, userData2, userData, itemId, params, result, thrownAt, table, issued>>

\* fetch(users) rejects (network error).
FetchUserReject(i) == Reject(i, "fetchUser")

\* adot: nodeFetch(comments) resolves; user2.json() is awaited.
FetchUser2Resolve(i, r) ==
  /\ pc[i] = "fetchUser2"
  /\ user2' = [user2 EXCEPT ![i] = r]
  /\ pc' = [pc EXCEPT ![i] = NextAwait(handlerOf[i], "fetchUser2")]
  /\ inflight' = [inflight EXCEPT ![i] = {ReadBody("user2")}]
  /\ UNCHANGED <<handlerOf, user, userData2, userData, itemId, params, result, steps, thrownAt, table, issued>>

\* adot: nodeFetch(comments) rejects.
FetchUser2Reject(i) == Reject(i, "fetchUser2")

\* adot: user2.json() resolves; user.json() is awaited.
Json2Resolve(i) ==
  /\ pc[i] = "json2"
  /\ Decodable(user2[i].body)
  /\ userData2' = [userData2 EXCEPT ![i] = json(user2[i])]
  /\ pc' = [pc EXCEPT ![i] = NextAwait(handlerOf[i], "json2")]
  /\ inflight' = [inflight EXCEPT ![i] = {ReadBody("user")}]
  /\ steps' = [steps EXCEPT ![i] = Append(@, "decodeAuxiliary")]
  /\ UNCHANGED <<handlerOf, user, user2, userData, itemId, params, result, thrownAt, table, issued>>

\* Faulty variant: the auxiliary decode wrapped in a try/catch that carries on.
Json2RejectIgnored(i) ==
  /\ pc[i] = "json2"
  /\ pc' = [pc EXCEPT ![i] = "json"]
  /\ inflight' = [inflight EXCEPT ![i] = {ReadBody("user")}]
  /\ UNCHANGED <<handlerOf, user, user2, userData2, userData, itemId, params,
                 result, steps, thrownAt, table, issued>>

\* adot: user2.json() rejects: the body is no JSON, or reading it failed.
Json2Reject(i) == Reject(i, "json2")

\* Faulty variant: the decoded comments merged into the item.
JsonResolveMergingAux(i, uuid) ==
  /\ pc[i] = "json"
  /\ Decodable(user[i].body)
  /\ uuid \in randomUUID(issued)
  /\ LET data == json(user[i])
         item == IF handlerOf[i] = "adot"
                   THEN JObject(SetProperty(Item(data, uuid)[2], "comments", userData2[i]))
                   ELSE Item(data, uuid) IN
       /\ userData' = [userData EXCEPT ![i] = data]
       /\ itemId' = [itemId EXCEPT ![i] = uuid]
       /\ params' = [params EXCEPT ![i] = item]
       /\ inflight' = [inflight EXCEPT ![i] = {PutCall}]
  /\ issued' = issued \cup {uuid}
  /\ pc' = [pc EXCEPT ![i] = "put"]
  /\ steps' = [steps EXCEPT ![i] =
                 @ \o <<"decodePrimary", "generateIdentifier", "merge", "persist">>]
  /\ UNCHANGED <<handlerOf, user, user2, userData2, result, thrownAt, table>>

\* Faulty variant: `if (!user.ok) throw ...` before the body is used.
JsonResolveChecksOk(i, uuid) ==
  /\ pc[i] = "json"
  /\ Decodable(user[i].body)
  /\ user[i].status = 200
  /\ uuid \in randomUUID(issued)
  /\ LET data == json(user[i])
         item == Item(data, uuid) IN
       /\ userData' = [userData EXCEPT ![i] = data]
       /\ itemId' = [itemId EXCEPT ![i] = uuid]
       /\ params' = [params EXCEPT ![i] = item]
       /\ inflight' = [inflight EXCEPT ![i] = {PutCall}]
  /\ issued' = issued \cup {uuid}
  /\ pc' = [pc EXCEPT ![i] = "put"]
  /\ steps' = [steps EXCEPT ![i] =
                 @ \o <<"decodePrimary", "generateIdentifier", "merge", "persist">>]
  /\ UNCHANGED <<handlerOf, user, user2, userData2, result, thrownAt, table>>

\* user.json() resolves; then, without awaiting: randomUUID(), the params
\* literal, and documentClient.put(params), which is awaited.
JsonResolve(i, uuid) ==
  /\ pc[i] = "json"
  /\ Decodable(user[i].body)
  /\ uuid \in randomUUID(issued)
  /\ LET data == json(user[i])
         item == Item(data, uuid) IN
       /\ userData' = [userData EXCEPT ![i] = data]
       /\ itemId' = [itemId EXCEPT ![i] = uuid]
       /\ params' = [params EXCEPT ![i] = item]
       /\ inflight' = [inflight EXCEPT ![i] = {PutCall}]
  /\ issued' = issued \cup {uuid}
  /\ pc' = [pc EXCEPT ![i] = NextAwait(handlerOf[i], "json")]
  /\ steps' = [steps EXCEPT ![i] =
                 @ \o <<"decodePrimary", "generateIdentifier", "merge", "persist">>]
  /\ UNCHANGED <<handlerOf, user, user2, userData2, result, thrownAt, table>>

\* user.json() rejects: the body is no JSON, or reading it failed.
JsonReject(i) == Reject(i, "json")

\* Faulty variant: the response body built from the fetched payload, not from the item.
PutResolveBodyOfUserData(i) ==
  /\ pc[i] = "put"
  /\ table' = PutItem(table, Marshall(params[i]))
  /\ result' = [result EXCEPT ![i] =
                  [statusCode |-> 200, body |-> stringify(JObject(OwnProperties(userData[i])))]]
  /\ pc' = [pc EXCEPT ![i] = "return"]
  /\ inflight' = [inflight EXCEPT ![i] = {}]
  /\ steps' = [steps EXCEPT ![i] = @ \o <<"persisted", "respond">>]
  /\ UNCHANGED <<handlerOf, user, user2, userData2, userData, itemId, params, thrownAt, issued>>

\* documentClient.put resolves: the item is in the table; the handler returns
\* { statusCode: 200, body: JSON.stringify(params.Item) }.
PutResolve(i) ==
  /\ pc[i] = "put"
  /\ table' = PutItem(table, Marshall(params[i]))
  /\ result' = [result EXCEPT ![i] = [statusCode |-> 200, body |-> stringify(params[i])]]
  /\ pc' = [pc EXCEPT ![i] = NextAwait(handlerOf[i], "put")]
  /\ inflight' = [inflight EXCEPT ![i] = {}]
  /\ steps' = [steps EXCEPT ![i] = @ \o <<"persisted", "respond">>]
  /\ UNCHANGED <<handlerOf, user, user2, userData2, userData, itemId, params, thrownAt, issued>>

\* Faulty variant: the put wrapped in a try/catch that answers 200 all the same.
PutRejectSwallowed(i) ==
  /\ pc[i] = "put"
  /\ result' = [result EXCEPT ![i] = [statusCode |-> 200, body |-> stringify(params[i])]]
  /\ pc' = [pc EXCEPT ![i] = "return"]
  /\ inflight' = [inflight EXCEPT ![i] = {}]
  /\ steps' = [steps EXCEPT ![i] = Append(@, "respond")]
  /\ UNCHANGED <<handlerOf, user, user2, userData2, userData, itemId, params,
                 thrownAt, table, issued>>

\* documentClient.put rejects: nothing is written.
PutReject(i) == Reject(i, "put")

Next ==
  \E i \in Invocations :
    \/ \E h \in Handlers : Invoke(i, h)
    \/ \E r \in UserResponses : FetchUserResolve(i, r)
    \/ FetchUserReject(i)
    \/ \E r \in CommentResponses : FetchUser2Resolve(i, r)
    \/ FetchUser2Reject(i)
    \/ Json2Resolve(i)
    \/ Json2Reject(i)
    \/ \E uuid \in UUIDs : JsonResolve(i, uuid)
    \/ JsonReject(i)
    \/ PutResolve(i)
    \/ PutReject(i)

Spec == Init /\ [][Next]_vars

\* One invocation alone, its primary fetch answered by any of AllUserResponses.
NextPayloads ==
  \/ \E h \in Handlers : Invoke(1, h)
  \/ \E r \in AllUserResponses : FetchUserResolve(1, r)
  \/ FetchUserReject(1)
  \/ \E r \in CommentResponses : FetchUser2Resolve(1, r)
  \/ FetchUser2Reject(1)
  \/ Json2Resolve(1)
  \/ Json2Reject(1)
  \/ \E uuid \in UUIDs : JsonResolve(1, uuid)
  \/ JsonReject(1)
  \/ PutResolve(1)
  \/ PutReject(1)

SpecPayloads == Init /\ [][NextPayloads]_vars

\* ------------------------------------------------------------------ claims

Returned(i) == pc[i] = "return"
Failed(i) == pc[i] = "failed"

\* The invocation has built params.Item and has not thrown since.
Merged(i) == params[i] # Undefined

Reached(i, step) == \E n \in 1..Len(steps[i]) : steps[i][n] = step
Count(i, step) == Cardinality({n \in 1..Len(steps[i]) : steps[i][n] = step})

\* Every occurrence of step b in the invocation's steps has an earlier a.
Precedes(i, a, b) ==
  \A n \in 1..Len(steps[i]) :
    steps[i][n] = b => \E m \in 1..(n - 1) : steps[i][m] = a

\* The items of the table under partition key u.
RecordsOf(u) == {r \in table : r[partitionKey] = u}

\* The properties of the object a response body decodes to.
BodyProperties(body) == OwnProperties(json(Response(200, body)))

Values(props) == {props[n][2] : n \in 1..Len(props)}

\* C1 (overwrite invariant): in every invocation that has reached the merge
\* step, the item has an `id` and it is the UUID generated in that invocation,
\* whatever the fetched payload holds; once the handler has returned, the item
\* in the table and the response body carry that same `id`.
C1_OverwriteInvariant ==
  \A i \in Invocations :
    Merged(i) =>
      /\ itemId[i] \in UUIDs
      /\ "id" \in Keys(params[i][2])
      /\ Get(params[i][2], "id") = itemId[i]
      /\ Returned(i) =>
           /\ \E r \in table : r["id"] = itemId[i]
           /\ \A r \in table : "id" \in DOMAIN r /\ r["id"] \in UUIDs
           /\ "id" \in Keys(BodyProperties(result[i].body))
           /\ Get(BodyProperties(result[i].body), "id") = itemId[i]

\* C1 witness: an invocation whose payload had id 7 has returned.
C1_Witness ==
  \E i \in Invocations :
    /\ Returned(i)
    /\ "id" \in Keys(OwnProperties(userData[i]))
    /\ Get(OwnProperties(userData[i]), "id") = Num(7)
    /\ "name" \in Keys(OwnProperties(userData[i]))
    /\ Get(BodyProperties(result[i].body), "id") = itemId[i]

\* C2 (field preservation): the item built from a decoded payload, and the
\* record persisted for it, hold exactly the payload's fields other than `id`,
\* each with the payload's value, plus `id`.
C2_FieldPreservation ==
  \A i \in Invocations :
    Merged(i) =>
      LET src == OwnProperties(userData[i])
          others == Keys(src) \ {"id"}
      IN  /\ userData[i] = json(user[i])
          /\ Keys(params[i][2]) \ {"id"} = others
          /\ \A k \in others : Get(params[i][2], k) = Get(src, k)
          /\ Returned(i) =>
               \E r \in table :
                 /\ r["id"] = itemId[i]
                 /\ DOMAIN r \ {"id"} = others
                 /\ \A k \in others : r[k] = Get(src, k)

\* C2 witness: a payload with an `id` and a name has been persisted, name kept.
C2_Witness ==
  \E i \in Invocations :
    /\ Returned(i)
    /\ Keys(OwnProperties(userData[i])) = {"id", "name"}
    /\ \E r \in table : r["id"] = itemId[i] /\ r["name"] = Str("Leanne")

\* C3 as stated: every invocation that has ended performed exactly one put and
\* returned a status-200 response whose body serializes the record put.
C3_EveryInvocationPersists ==
  \A i \in Invocations :
    (Returned(i) \/ Failed(i)) =>
      /\ Count(i, "persist") = 1
      /\ result[i].statusCode = 200
      /\ Marshall(JObject(BodyProperties(result[i].body))) \in table

\* C3 (amended): no invocation performs more than one put; an invocation that
\* returns has performed exactly one, and its response is status 200 with the
\* serialization of the very item that was put; an invocation that fails
\* returns no response.
C3_OneRecordOneResponse ==
  \A i \in Invocations :
    /\ Count(i, "persist") <= 1
    /\ Count(i, "persisted") <= Count(i, "persist")
    /\ Count(i, "respond") <= 1
    /\ Returned(i) =>
         /\ Count(i, "persist") = 1
         /\ Count(i, "persisted") = 1
         /\ Count(i, "respond") = 1
         /\ result[i].statusCode = 200
         /\ result[i].body = stringify(params[i])
         /\ RecordsOf(itemId[i]) = {Marshall(JObject(BodyProperties(result[i].body)))}
    /\ Failed(i) => result[i] = NoResult
    /\ result[i] # NoResult => Returned(i)

\* C3 witness: an invocation has returned its record.
C3_Witness ==
  \E i \in Invocations :
    /\ Returned(i)
    /\ result[i].statusCode = 200
    /\ Marshall(JObject(BodyProperties(result[i].body))) \in table

\* C4 (no idempotence): two invocations that have returned after fetching the
\* same primary data have distinct identifiers and two distinct records in
\* the table.
C4_NotIdempotent ==
  \A i, j \in Invocations :
    (i # j /\ Returned(i) /\ Returned(j) /\ user[i] = user[j]) =>
      /\ itemId[i] # itemId[j]
      /\ Cardinality(RecordsOf(itemId[i])) = 1
      /\ Cardinality(RecordsOf(itemId[j])) = 1
      /\ RecordsOf(itemId[i]) # RecordsOf(itemId[j])
      /\ Cardinality(table) >= 2

\* C4 witness: two invocations, one of each handler and also two of the same
\* handler being possible, have returned after the same primary answer.
C4_Witness ==
  \E i, j \in Invocations :
    /\ i # j
    /\ Returned(i) /\ Returned(j)
    /\ user[i] = user[j]
    /\ "id" \in Keys(OwnProperties(userData[i]))
    /\ Cardinality(table) = 2

\* C5 (fetch failure is fatal): an invocation whose primary or auxiliary fetch
\* or decode rejected has failed, has issued no put and returned nothing; a put
\* is only ever issued after every fetch of the handler resolved and decoded;
\* and the table holds the records of the returned invocations and no other.
C5_FetchFailureFatal ==
  /\ \A i \in Invocations :
       /\ thrownAt[i] \in {"fetchUser", "json", "fetchUser2", "json2"} =>
            /\ Failed(i)
            /\ ~Reached(i, "persist")
            /\ result[i] = NoResult
       /\ Reached(i, "persist") =>
            /\ Reached(i, "decodePrimary")
            /\ handlerOf[i] = "adot" => Reached(i, "decodeAuxiliary")
       /\ pc[i] \in {"put", "return"} =>
            /\ Decodable(user[i].body)
            /\ handlerOf[i] = "adot" =>
                 Decodable(user2[i].body) /\ userData2[i] = json(user2[i])
  /\ table = {Marshall(params[i]) : i \in {j \in Invocations : Returned(j)}}

\* C5 witness: one invocation failed in a fetch or decode while another's
\* record is in the table.
C5_Witness ==
  \E i, j \in Invocations :
    /\ Failed(i) /\ thrownAt[i] = "json2"
    /\ Returned(j)
    /\ Cardinality(table) = 1

\* C6 (persistence failure is fatal): an invocation whose put rejected has
\* failed and returned nothing; a status-200 response exists only for an
\* invocation whose put completed, its record being in the table.
C6_PutFailureFatal ==
  \A i \in Invocations :
    /\ thrownAt[i] = "put" => Failed(i) /\ result[i] = NoResult
    /\ result[i].statusCode \in {0, 200}
    /\ result[i].statusCode = 200 =>
         /\ Returned(i)
         /\ Reached(i, "persisted")
         /\ thrownAt[i] = "none"
         /\ RecordsOf(itemId[i]) # {}

\* C6 witness: a put has rejected.
C6_Witness ==
  \E i \in Invocations :
    Failed(i) /\ thrownAt[i] = "put" /\ Reached(i, "persist") /\ result[i] = NoResult

\* C7 (the auxiliary fetch is dead data): two adot invocations with the same
\* primary payload have, up to their generated identifiers, the same item and
\* the same response body, whatever their auxiliary results; and no auxiliary
\* result is a value of an item, of a record of the table or of a body.
C7_AuxiliaryUnused ==
  /\ \A i, j \in Invocations :
       ( /\ handlerOf[i] = "adot" /\ handlerOf[j] = "adot"
         /\ Merged(i) /\ Merged(j)
         /\ userData[i] = userData[j] ) =>
           /\ SetProperty(params[i][2], "id", itemId[j]) = params[j][2]
           /\ (Returned(i) /\ Returned(j)) =>
                /\ SetProperty(BodyProperties(result[i].body), "id", itemId[j])
                     = BodyProperties(result[j].body)
                /\ \A r \in RecordsOf(itemId[i]) :
                     [k \in DOMAIN r |-> IF k = "id" THEN itemId[j] ELSE r[k]]
                       \in RecordsOf(itemId[j])
  /\ \A i \in Invocations :
       Merged(i) => Values(params[i][2]) \cap CommentValues = {}
  /\ \A i \in Invocations :
       Returned(i) => Values(BodyProperties(result[i].body)) \cap CommentValues = {}
  /\ \A r \in table : \A k \in DOMAIN r : r[k] \notin CommentValues

\* C7 witness: two adot invocations with the same payload and different
\* comments have both returned.
C7_Witness ==
  \E i, j \in Invocations :
    /\ handlerOf[i] = "adot" /\ handlerOf[j] = "adot"
    /\ Returned(i) /\ Returned(j)
    /\ userData[i] = userData[j]
    /\ userData2[i] # userData2[j]
    /\ userData2[i] \in CommentValues /\ userData2[j] \in CommentValues

\* C8 (records are immutable): a step never removes or changes an item of the
\* table, and the table holds exactly one item per invocation whose put has
\* completed.
C8_TableInvariant ==
  /\ \A i \in Invocations : Returned(i) => Cardinality(RecordsOf(itemId[i])) = 1
  /\ Cardinality(table) = Cardinality({i \in Invocations : Reached(i, "persisted")})
C8_TableStep == table \subseteq table'
C8_RecordsImmutable == []C8_TableInvariant /\ [][C8_TableStep]_vars

\* C8 witness: two invocations have returned and the table holds both records.
C8_Witness ==
  /\ Cardinality(table) = 2
  /\ \A i \in Invocations : i <= 2 => Returned(i)

\* C9 (step ordering): the steps of an invocation are an initial part of
\* fetch-primary, (adot) fetch-auxiliary, generate-identifier, merge, persist,
\* respond; at most one outbound operation is in flight; the put is issued
\* after the primary decode and the identifier generation, with both values
\* in hand, and the response is produced after the put has completed.
Order(h) ==
  IF h = "adot"
    THEN <<"fetchPrimary", "fetchAuxiliary", "generateIdentifier", "merge",
           "persist", "respond">>
    ELSE <<"fetchPrimary", "generateIdentifier", "merge", "persist", "respond">>

ChainSteps(i) ==
  SelectSeq(steps[i],
            LAMBDA x : x \in {"fetchPrimary", "fetchAuxiliary",
                              "generateIdentifier", "merge", "persist", "respond"})

IsPrefix(a, b) == Len(a) <= Len(b) /\ a = SubSeq(b, 1, Len(a))

C9_StepOrdering ==
  \A i \in Invocations :
    /\ pc[i] # "idle" => IsPrefix(ChainSteps(i), Order(handlerOf[i]))
    /\ Cardinality(inflight[i]) <= 1
    /\ Precedes(i, "decodePrimary", "persist")
    /\ Precedes(i, "generateIdentifier", "persist")
    /\ Precedes(i, "persisted", "respond")
    /\ pc[i] = "put" =>
         /\ inflight[i] = {PutCall}
         /\ itemId[i] \in UUIDs
         /\ userData[i] = json(user[i])
         /\ params[i] = Item(userData[i], itemId[i])
    /\ result[i] # NoResult => RecordsOf(itemId[i]) # {}

\* C9 witness: an adot invocation has run the whole chain.
C9_Witness ==
  \E i \in Invocations :
    /\ handlerOf[i] = "adot"
    /\ Returned(i)
    /\ ChainSteps(i) = Order("adot")

\* C10 (the HTTP status is not inspected): whatever the status of the primary
\* response, the handler takes it, and with a decodable body it goes on to the
\* put; an invocation whose primary response had a non-success status and that
\* returned has persisted the decoded body with the generated `id` and
\* answered 200.
C10_StatusNotInspected ==
  \A i \in Invocations :
    /\ pc[i] = "fetchUser" =>
         \A r \in UserResponses : ENABLED FetchUserResolve(i, r)
    /\ (pc[i] = "json" /\ Decodable(user[i].body)) =>
         ENABLED (\E uuid \in UUIDs : JsonResolve(i, uuid))
    /\ pc[i] = "put" => ENABLED PutResolve(i)
    /\ (Returned(i) /\ user[i].status # 200) =>
         /\ result[i].statusCode = 200
         /\ RecordsOf(itemId[i]) = {Marshall(Item(json(user[i]), itemId[i]))}

\* C10 witness: an invocation answered 404 with {} has returned 200.
C10_Witness ==
  \E i \in Invocations :
    /\ Returned(i)
    /\ user[i] = Response(404, JsonText(JObject(<<>>)))
    /\ result[i].statusCode = 200
    /\ RecordsOf(itemId[i]) = {[k \in {"id"} |-> itemId[i]]}

====
